---- MODULE Spec2Model ----
(***************************************************************************)
(* State-machine model of the fishing scene's orchestrator (the ThreeView  *)
(* component, src/unnamed/part_002) together with the seabed builder it    *)
(* owns (SeabedController, src/unnamed/part_000).                          *)
(*                                                                         *)
(* One "run" is one execution of the mount effect (part_002:66-373): the   *)
(* closure variables of that execution (renderer, composer, animationId,   *)
(* animate, the cleanup function) are indexed by the run's number, the     *)
(* React refs shared by all executions are single variables.  The host     *)
(* runs effects, frame callbacks and API calls one at a time, so each is   *)
(* one atomic action.                                                      *)
(***************************************************************************)
EXTENDS Integers, Sequences, FiniteSets, Bags, TLC

\* ---------------------------------------------------------------- bounds
MaxRuns == 2            \* executions of the mount effect that are explored
MaxRaf == 2             \* frame requests issued over a behaviour
MaxTeardownCalls == 2   \* calls of one run's cleanup function
MaxViewerFrames == 2    \* renders of the species viewer over a behaviour
MaxCastFrames == 6      \* frame requests issued over a behaviour of SpecCast

\* ------------------------------------------------------ program constants
pillarCount == 12
debrisCount == 10
kelpCount == 40

Null == 0
Runs == 1..MaxRuns
Distances == {0, 50}

\* MapType and WeatherType values ('atlantis' part_002:394, 'CLEAR'
\* part_002:64; the types themselves are declared elsewhere).
Maps == {"atlantis", "lake"}
WeatherTypes == {"CLEAR", "RAIN", "STORM", "FOG"}

VARIABLES
  refs,          \* the component's refs (part_002:41-57); a run number or Null
  stateRef,      \* CastState: [isCasted, targetPos] (part_002:59-62)
  bobber,        \* the BobberController instance last constructed
  rod,           \* the RodController instance last constructed
  runs,          \* number of executions of the mount effect so far
  runStatus,     \* per run: "none" | "skipped" | "failed" | "ok"
  scene,         \* per run: the scene graph built by that execution
  animationId,   \* per run: the closure variable animationId (Null: unset)
  raf,           \* the host's pending frame requests: [id, run]
  nextRafId,     \* the host's next requestAnimationFrame handle
  contextLost,   \* per run: the canvas' WebGL context is lost
  dom,           \* runs whose canvas is a child of the container
  cleanupCalls,  \* calls of each run's cleanup function, by the scene ref
                 \* each call found: [<<run, sceneRef>> -> count]
  lastFrame,     \* the sub-steps of the animate invocation run last
  roundTrip,     \* progress of the call sequence cast, reset: "idle" (no
                 \* cast or reset yet) | "casted" (cast was the last call) |
                 \* "castThenReset" | "other"
  callerLog,     \* notifications the host received through the props
  props,         \* the props of the last render: [map, onWeatherUpdate]
                 \* (onWeatherUpdate: whether the host passes the callback)
  weather,       \* state of the WeatherController last constructed:
                 \* [time, weather], time in half hours (0..47)
  lastWeatherReportRef,  \* [weather, hour] (part_002:64)
  hostWeather,   \* the arguments of the last onWeatherUpdate call the host
                 \* received: <<weather, time>>, or <<>> before the first
  seabed,        \* the SeabedController last constructed: [visible]
  lineGeo,       \* the two points of the fishing line's geometry last
                 \* constructed (part_002:233-235): [p0, p1]
  fishType,      \* the species id the FishViewer is rendered with
  fishGroup,     \* the group generateLowPolyFish returned: [rotY, posY, parts]
  viewer,        \* the FishViewer: [mounted, pending, renderers,
                 \* isDragging, renders, error]; pending counts the frame
                 \* requests the host holds, renderers the WebGLRenderers
                 \* constructed and not disposed
  kelp,          \* one kelp stalk under construction: [height, v, pos], v
                 \* the next vertex of the twist loop, pos the position buffer
  ruins          \* the ruins under construction: [pillars, crystals, arch],
                 \* the pillar groups built so far, the controller's
                 \* crystals list and whether the archway has been built

\* The state of the ThreeView component and of its host.
viewVars == <<refs, stateRef, bobber, rod, runs, runStatus, scene, animationId,
              raf, nextRafId, contextLost, dom, cleanupCalls, lastFrame,
              roundTrip, callerLog, props, weather, lastWeatherReportRef,
              hostWeather, seabed, lineGeo>>

\* The state of the species viewer.
fishVars == <<fishType, fishGroup, viewer>>

\* The state of the components and builders outside ThreeView.
\* What the seabed builders work on.
seabedVars == <<kelp, ruins>>

genVars == <<fishVars, seabedVars>>

vars == <<viewVars, genVars>>

\* ------------------------------------------------------------- resources
\* A GPU-backed resource is named <<run, kind, name, index>>.
Res(g, kind, name, i) == <<g, kind, name, i>>
NoRes == <<0, "none", "", 0>>

Mesh(geo, mat) == [type |-> "Mesh", geo |-> geo, mat |-> mat]
Line(geo, mat) == [type |-> "Line", geo |-> geo, mat |-> mat]
Node(type) == [type |-> type, geo |-> NoRes, mat |-> NoRes]

\* The outcome of one pillar's random draws is [isTall, crystal]
\* (part_000:66, 89).  The draw vectors explored for a scene build: one that holds every kind of
\* pillar (broken, tall without a crystal, tall with a crystal).
SampleDraws ==
  { [i \in 1..pillarCount |-> [isTall |-> (i % 2 = 0), crystal |-> (i % 4 = 0)]] }

RECURSIVE Flatten(_)
Flatten(ss) == IF ss = <<>> THEN <<>> ELSE Head(ss) \o Flatten(Tail(ss))

initSeabed(g) ==
  << Mesh(Res(g, "geo", "seabed", 0), Res(g, "mat", "sand", 0)) >>

PillarObjects(g, i, d) ==
  << Node("Group"),
     Mesh(Res(g, "geo", "pillar.base", i), Res(g, "mat", "stone", 0)),
     Mesh(Res(g, "geo", "pillar.col", i), Res(g, "mat", "stone", 0)) >>
  \o (IF d.isTall
        THEN << Mesh(Res(g, "geo", "pillar.cap", i), Res(g, "mat", "stone", 0)) >>
             \o (IF d.crystal
                   THEN << Mesh(Res(g, "geo", "pillar.crystal", i),
                                Res(g, "mat", "crystal", 0)),
                           Node("Light") >>
                   ELSE <<>>)
        ELSE <<>>)

initRuins(g, draws) ==
  Flatten([i \in 1..pillarCount |-> PillarObjects(g, i, draws[i])])
  \o << Node("Group"),
        Mesh(Res(g, "geo", "arch.colL", 0), Res(g, "mat", "stone", 0)),
        Mesh(Res(g, "geo", "arch.colR", 0), Res(g, "mat", "stone", 0)),
        Mesh(Res(g, "geo", "arch.topBeam", 0), Res(g, "mat", "stone", 0)),
        Mesh(Res(g, "geo", "arch.giantCrystal", 0), Res(g, "mat", "crystal", 0)) >>
  \o [i \in 1..debrisCount |->
        Mesh(Res(g, "geo", "arch.debris", i), Res(g, "mat", "stone", 0))]

\* Each stalk is a wrapper group holding one kelp mesh.
initVegetation(g) ==
  [k \in 1..(2 * kelpCount) |->
     IF k % 2 = 1 THEN Node("Group")
     ELSE Mesh(Res(g, "geo", "kelp", k \div 2), Res(g, "mat", "kelp", 0))]

\* new SeabedController(): the objects under its group, in traversal order.
SeabedController(g, draws) ==
  << Node("Group") >> \o initSeabed(g) \o initRuins(g, draws) \o initVegetation(g)

\* The scene graph at the end of a completed mount effect, in the order of
\* the scene.add calls.  The groups of the rod, boat, bobber and fishing-spot
\* controllers are listed as nodes; what they hold is built elsewhere.
SceneObjects(g, draws) ==
  << Node("Light"), Node("Light"),
     Mesh(Res(g, "geo", "sky", 0), Res(g, "mat", "sky", 0)),
     Mesh(Res(g, "geo", "water", 0), Res(g, "mat", "water", 0)),
     Node("Group"), Node("Group"), Node("Group"), Node("Group") >>
  \o SeabedController(g, draws)
  \o << Line(Res(g, "geo", "line", 0), Res(g, "mat", "line", 0)) >>

Range(s) == {s[i] : i \in DOMAIN s}

\* Every disposable resource the mount effect of run g creates.
CreatedResources(g, draws) ==
  LET objs == {o \in Range(SceneObjects(g, draws)) : o.type \in {"Mesh", "Line"}}
  IN  {o.geo : o \in objs} \cup {o.mat : o \in objs}
      \cup { Res(g, "tex", "normalMap", 0),
             Res(g, "composer", "composer", 0),
             Res(g, "renderer", "renderer", 0) }

\* scene.traverse(...) of the cleanup: one dispose() call on the geometry and
\* one on the material of every object that is a THREE.Mesh, added to bag.
TraverseDispose(objs, bag) ==
  LET meshes == {i \in DOMAIN objs : objs[i].type = "Mesh"}
      hit == {objs[i].geo : i \in meshes} \cup {objs[i].mat : i \in meshes}
      calls == [x \in hit |->
                  Cardinality({i \in meshes : objs[i].geo = x})
                  + Cardinality({i \in meshes : objs[i].mat = x})]
  IN  bag (+) calls

\* ============================================================ species viewer
\* The FishViewer component (src/components/FishViewer.tsx) and the low-poly
\* generator it calls.  Lengths are in hundredths of a world unit, angles in
\* thousandths of a radian.

\* A species id is a string, modelled as the sequence of its characters.
Dragon == <<"d", "r", "a", "g", "o", "n">>
Cosmic == <<"c", "o", "s", "m", "i", "c">>
Shark == <<"s", "h", "a", "r", "k">>
Ancient == <<"a", "n", "c", "i", "e", "n", "t">>
Dunkle == <<"d", "u", "n", "k", "l", "e">>
Rare == <<"r", "a", "r", "e">>
Arowana == <<"a", "r", "o", "w", "a", "n", "a">>
Legend == <<"l", "e", "g", "e", "n", "d">>
Coelacanth == <<"c", "o", "e", "l", "a", "c", "a", "n", "t", "h">>

\* The words species ids are made of: the keywords of the generator and
\* three that are none ("koi", "_mutant", "ary" as in legendary).
Words ==
  { Dragon, Cosmic, Shark, Ancient, Dunkle, Rare, Arowana, Legend, Coelacanth,
    <<"k", "o", "i">>, <<"_", "m", "u", "t", "a", "n", "t">>, <<"a", "r", "y">> }

\* The species ids explored: one word, or two words joined.
SpeciesIds == Words \cup {a \o b : a, b \in Words}

\* String.prototype.includes: w occurs in s as a contiguous run.
Includes(s, w) ==
  \E i \in 0..(Len(s) - Len(w)) : SubSeq(s, i + 1, i + Len(w)) = w

\* new THREE.Mesh / new THREE.Group added to the fish group: name is the
\* object's name property ("" unless the code sets it), geo the geometry
\* class with its radial segment count (0: none), pos and rotY, rotZ the
\* transform set at generation.  pathU >= 0: pos is an offset from
\* path.getPointAt(pathU / 4).
Part(name, type, geo, pos, rotY, rotZ) ==
  [name |-> name, type |-> type, geo |-> geo, pos |-> pos,
   rotY |-> rotY, rotZ |-> rotZ, pathU |-> 0 - 1]

Geo(kind, radial) == [kind |-> kind, radial |-> radial]

\* createFin(w, h): a mesh over a triangular ShapeGeometry.
createFin(name, pos, rotY, rotZ) ==
  Part(name, "Mesh", Geo("Shape", 0), pos, rotY, rotZ)

\* The z coordinates of the control points of the dragon's body path: the
\* body runs from z = 1.5 (front) to z = -1.5.
DragonPath == <<150, 50, 0 - 50, 0 - 150>>

SeaDragon ==
  << Part("", "Mesh", Geo("Tube", 4), <<0, 0, 0>>, 0, 0),
     Part("", "Mesh", Geo("Cone", 4), <<0, 10, 160>>, 0, 0) >>
  \o [i \in 1..5 |->
        [Part("", "Mesh", Geo("Circle", 3), <<0, 15, 0>>, 0,
              IF (i - 1) % 2 = 0 THEN 500 ELSE 0 - 500)
           EXCEPT !.pathU = i - 1]]

SharkFish ==
  << Part("", "Mesh", Geo("Lathe", 6), <<0, 0, 0>>, 0, 0),
     createFin("", <<0, 60, 20>>, 0 - 1571, 0 - 785),
     Part("Tail", "Group", Geo("none", 0), <<0, 0, 0 - 280>>, 0, 0),
     Part("", "Mesh", Geo("Icosahedron", 0), <<35, 20, 180>>, 0, 0),
     Part("", "Mesh", Geo("Icosahedron", 0), <<0 - 35, 20, 180>>, 0, 0) >>

BoxFish ==
  << Part("", "Mesh", Geo("Box", 0), <<0, 0, 80>>, 0, 0),
     Part("", "Mesh", Geo("Cone", 5), <<0, 0, 0 - 120>>, 0, 0),
     Part("Tail", "Group", Geo("none", 0), <<0, 0, 0 - 250>>, 0, 0) >>

ArowanaFish ==
  << Part("", "Mesh", Geo("Lathe", 4), <<0, 0, 0>>, 0, 0),
     Part("", "Mesh", Geo("Icosahedron", 0), <<25, 10, 160>>, 0, 0),
     Part("", "Mesh", Geo("Icosahedron", 0), <<0 - 25, 10, 160>>, 0, 0),
     Part("Tail", "Group", Geo("none", 0), <<0, 0, 0 - 200>>, 0, 0) >>

CoelacanthFish ==
  << Part("", "Mesh", Geo("Lathe", 8), <<0, 0, 0>>, 0, 0),
     createFin("", <<0, 0 - 50, 0>>, 0 - 1571, 3142),
     Part("Tail", "Group", Geo("none", 0), <<0, 0, 0 - 200>>, 0, 0) >>

GenericFish ==
  << Part("", "Mesh", Geo("Cone", 6), <<0, 0, 75>>, 0, 0),
     Part("", "Mesh", Geo("Cone", 6), <<0, 0, 0 - 75>>, 0, 0),
     Part("Tail", "Group", Geo("none", 0), <<0, 0, 0 - 150>>, 0, 0),
     createFin("FinL", <<40, 0 - 20, 50>>, 0 - 1571, 0 - 1047),
     createFin("FinR", <<0 - 40, 0 - 20, 50>>, 0 - 1571, 1047),
     Part("", "Mesh", Geo("Icosahedron", 0), <<30, 10, 100>>, 0, 0),
     Part("", "Mesh", Geo("Icosahedron", 0), <<0 - 30, 10, 100>>, 0, 0) >>

\* A generator that tests the shark rule before the dragon rule.
generateSharkFirst(id) ==
  IF Includes(id, Cosmic) \/ Includes(id, Shark) THEN SharkFish
  ELSE IF Includes(id, Dragon) THEN SeaDragon
  ELSE IF Includes(id, Ancient) \/ Includes(id, Dunkle) THEN BoxFish
  ELSE IF Includes(id, Rare) \/ Includes(id, Arowana) THEN ArowanaFish
  ELSE IF Includes(id, Legend) \/ Includes(id, Coelacanth) THEN CoelacanthFish
  ELSE GenericFish

\* generateLowPolyFish(fish): the children of the returned group, in the
\* order they are added.
generateLowPolyFish(id) ==
  IF Includes(id, Dragon) THEN SeaDragon
  ELSE IF Includes(id, Cosmic) \/ Includes(id, Shark) THEN SharkFish
  ELSE IF Includes(id, Ancient) \/ Includes(id, Dunkle) THEN BoxFish
  ELSE IF Includes(id, Rare) \/ Includes(id, Arowana) THEN ArowanaFish
  ELSE IF Includes(id, Legend) \/ Includes(id, Coelacanth) THEN CoelacanthFish
  ELSE GenericFish

\* The fish group before the effect has generated one.
NoGroup == [rotY |-> 0, posY |-> 0, parts |-> <<>>]

ViewerInit(id) ==
  /\ fishType = id
  /\ fishGroup = NoGroup
  /\ viewer = [mounted |-> FALSE, pending |-> 0, renderers |-> 0,
               isDragging |-> FALSE, renders |-> 0, error |-> FALSE]

\* fishGroup.getObjectByName(name): the index of the first child of that
\* name, 0 when there is none (undefined).
getObjectByName(parts, name) ==
  IF \E i \in DOMAIN parts : parts[i].name = name
    THEN CHOOSE i \in DOMAIN parts :
           /\ parts[i].name = name
           /\ \A j \in 1..(i - 1) : parts[j].name # name
    ELSE 0

\* The inputs of one animate invocation of the viewer: bobY is
\* sin(time * 1.5) * 0.1, wag is sin(time * 6) * 0.25 and flap is
\* sin(time * 10) * 0.15.
ViewerInputs == [bobY : {10}, wag : {0 - 250, 250}, flap : {150}]

\* A part animation that uses the looked-up parts without testing them: a
\* missing part is a TypeError.
AnimatePartsUnchecked(parts, in) ==
  LET tail == getObjectByName(parts, "Tail")
      finL == getObjectByName(parts, "FinL")
      finR == getObjectByName(parts, "FinR")
  IN  IF tail = 0 \/ finL = 0 \/ finR = 0
        THEN [parts |-> parts, error |-> TRUE]
        ELSE [parts |-> [parts EXCEPT ![tail].rotY = in.wag,
                                      ![finL].rotZ = 1047 + in.flap,
                                      ![finR].rotZ = (0 - 1047) - in.flap],
              error |-> FALSE]

\* The procedural animation of the named parts (FishViewer.tsx:80-90).
AnimateParts(parts, in) ==
  LET tail == getObjectByName(parts, "Tail")
      finL == getObjectByName(parts, "FinL")
      finR == getObjectByName(parts, "FinR")
      wagged == IF tail # 0 THEN [parts EXCEPT ![tail].rotY = in.wag]
                ELSE parts
  IN  [parts |-> IF finL # 0 /\ finR # 0
                   THEN [wagged EXCEPT ![finL].rotZ = 1047 + in.flap,
                                       ![finR].rotZ = (0 - 1047) - in.flap]
                   ELSE wagged,
       error |-> FALSE]

\* animate() of the viewer (FishViewer.tsx:70-94) on the group grp, in the
\* viewer state v, the request that invoked it taken off v.pending: requests
\* the next frame, turns and bobs the group unless it is dragged, animates
\* the named parts and renders.  An error thrown on the way ends the
\* invocation before the render.
ViewerAnimate(v, grp, in) ==
  LET done == AnimateParts(grp.parts, in)
  IN  /\ fishGroup' =
           [rotY |-> IF v.isDragging THEN grp.rotY ELSE grp.rotY + 5,
            posY |-> IF v.isDragging THEN grp.posY ELSE in.bobY,
            parts |-> done.parts]
      /\ viewer' = [v EXCEPT !.pending = @ + 1,
                             !.error = done.error,
                             !.renders = IF done.error THEN @ ELSE @ + 1]

\* The effect of the viewer (FishViewer.tsx:20-96) for the species id:
\* builds the scene and a renderer, generates the fish and runs animate()
\* once.
ViewerEffect(v, id, in) ==
  ViewerAnimate([v EXCEPT !.mounted = TRUE, !.renderers = @ + 1],
                [NoGroup EXCEPT !.parts = generateLowPolyFish(id)], in)

\* A cleanup that leaves the frame request pending.
ViewerCancelNothing(v) == v

\* cancelAnimationFrame(animationId) (FishViewer.tsx:99): animationId is the
\* request the effect's last animate made, which the host still holds.
ViewerCancel(v) == [v EXCEPT !.pending = IF @ > 0 THEN @ - 1 ELSE 0]

\* The cleanup of the viewer's effect (FishViewer.tsx:98-126): the pending
\* frame request is cancelled and the renderer disposed.
ViewerCleanedUp(v) ==
  [ViewerCancel(v) EXCEPT !.mounted = FALSE, !.renderers = @ - 1]

\* The viewer is mounted: its effect runs.
ViewerMount(in) ==
  /\ ~viewer.mounted
  /\ viewer.renders < MaxViewerFrames
  /\ ViewerEffect(viewer, fishType, in)
  /\ UNCHANGED <<fishType, viewVars, seabedVars>>

\* The host runs the viewer's pending frame request.
ViewerFrame(in) ==
  /\ viewer.pending > 0
  /\ viewer.renders < MaxViewerFrames
  /\ ViewerAnimate([viewer EXCEPT !.pending = @ - 1], fishGroup, in)
  /\ UNCHANGED <<fishType, viewVars, seabedVars>>

\* The viewer is rendered with another species: the effect depends on
\* fishType (FishViewer.tsx:127), so its cleanup runs and then the effect
\* for the new species, in one commit.
FishTypeChange(id, in) ==
  /\ viewer.mounted
  /\ id # fishType
  /\ viewer.renders < MaxViewerFrames
  /\ fishType' = id
  /\ ViewerEffect(ViewerCleanedUp(viewer), id, in)
  /\ UNCHANGED <<viewVars, seabedVars>>

\* handleMouseDown (FishViewer.tsx:130-135): the drag flag is a ref of the
\* component and outlives the effect.
handleMouseDown ==
  /\ ~viewer.isDragging
  /\ viewer' = [viewer EXCEPT !.isDragging = TRUE]
  /\ UNCHANGED <<fishType, fishGroup, viewVars, seabedVars>>

handleMouseUp ==
  /\ viewer.isDragging
  /\ viewer' = [viewer EXCEPT !.isDragging = FALSE]
  /\ UNCHANGED <<fishType, fishGroup, viewVars, seabedVars>>

\* The viewer is closed, or its effect is run again: the cleanup runs.
ViewerCleanup ==
  /\ viewer.mounted
  /\ viewer' = ViewerCleanedUp(viewer)
  /\ UNCHANGED <<fishType, fishGroup, viewVars, seabedVars>>

\* ===================================================================== kelp
\* One kelp stalk of SeabedController.initVegetation (part_000:146-163).
\* Heights are in world units, y in quarters of a world unit, x and z in
\* thousandths, angles in eighths of a turn (pi / 4).

\* const height = 10 + Math.random() * 15: the whole heights it can take.
KelpMinHeight == 10
KelpHeightSpread == 15
Heights == KelpMinHeight..(KelpMinHeight + KelpHeightSpread - 1)

\* pos.count of a plane of 1 by 4 segments: (1 + 1) * (4 + 1) vertices.
KelpVertices == 10

\* cos and sin of a * pi / 4, in thousandths.
Cos8(a) == <<1000, 707, 0, 0 - 707, 0 - 1000, 0 - 707, 0, 707>>[(a % 8) + 1]
Sin8(a) == Cos8(a - 2)

\* Vertex v of new THREE.PlaneGeometry(2, height, 1, 4): five rows of two
\* vertices from the top edge (y = height / 2) down, x = -1 then x = 1, z = 0.
PlaneVertex(height, v) ==
  << IF v % 2 = 0 THEN 0 - 1000 ELSE 1000,
     (2 * height) - ((v \div 2) * height),
     0 >>

PlaneGeometry(height) ==
  [v \in 0..(KelpVertices - 1) |-> PlaneVertex(height, v)]

KelpInit(h) == kelp = [height |-> h, v |-> 0, pos |-> PlaneGeometry(h)]

\* (y / height) * Math.PI, y in quarters of a world unit: y / (4 * height)
\* half turns are y / height eighths of a turn.
TwistAngle(y, height) == y \div height

\* The body of the vertex loop (part_000:153-161) on the vertex p.
TwistVertex(p, height) ==
  LET angle == TwistAngle(p[2], height)
  IN  << (p[1] * Cos8(angle) - p[3] * Sin8(angle)) \div 1000,
         p[2] + (2 * height),
         (p[1] * Sin8(angle) + p[3] * Cos8(angle)) \div 1000 >>

\* One iteration of the vertex loop.
KelpTwistStep ==
  /\ kelp.v < KelpVertices
  /\ kelp' = [kelp EXCEPT !.pos[kelp.v] = TwistVertex(@, kelp.height),
                          !.v = @ + 1]
  /\ UNCHANGED <<viewVars, fishVars, ruins>>

\* ==================================================================== ruins
\* SeabedController.initRuins (part_000:43-137), one pillar at a time.

\* The outcomes of one pillar's draws: isTall is Math.random() > 0.5 and,
\* on a tall pillar only, crystal is the second draw, Math.random() > 0.3.
PillarDraws ==
  { [isTall |-> FALSE, crystal |-> FALSE],
    [isTall |-> TRUE, crystal |-> FALSE],
    [isTall |-> TRUE, crystal |-> TRUE] }

\* (i / pillarCount) * Math.PI * 2, in degrees.
PillarAngle(i) == (i * 360) \div pillarCount

\* A pillar loop whose test of isTall is inverted.
PillarBuiltInverted(i, d) ==
  [angle |-> PillarAngle(i),
   height |-> IF d.isTall THEN 35 ELSE 15,
   cap |-> ~d.isTall,
   crystal |-> ~d.isTall /\ d.crystal,
   light |-> ~d.isTall /\ d.crystal,
   tilted |-> d.isTall]

\* The pillar group the loop body builds for index i on the draws d
\* (part_000:60-105): cap, crystal and light say which of these children it
\* has, tilted whether the column's rotation was set.
PillarBuilt(i, d) ==
  [angle |-> PillarAngle(i),
   height |-> IF d.isTall THEN 35 ELSE 15,
   cap |-> d.isTall,
   crystal |-> d.isTall /\ d.crystal,
   light |-> d.isTall /\ d.crystal,
   tilted |-> ~d.isTall]

RuinsInit == ruins = [pillars |-> <<>>, crystals |-> <<>>, arch |-> FALSE]

\* One iteration of the pillar loop; this.crystals.push(crystal) for a
\* pillar that got one.
PillarStep(d) ==
  LET i == Len(ruins.pillars)
      built == PillarBuilt(i, d)
  IN  /\ i < pillarCount
      /\ ruins' = [ruins EXCEPT
                      !.pillars = Append(@, built),
                      !.crystals = IF built.crystal
                                     THEN Append(@, <<"pillar", i>>) ELSE @]
      /\ UNCHANGED <<viewVars, fishVars, kelp>>

\* The sunken archway (part_000:108-136): its giant crystal joins the list.
ArchStep ==
  /\ Len(ruins.pillars) = pillarCount
  /\ ~ruins.arch
  /\ ruins' = [ruins EXCEPT !.arch = TRUE,
                            !.crystals = Append(@, <<"arch", 0>>)]
  /\ UNCHANGED <<viewVars, fishVars, kelp>>

\* No viewer is open and nothing of a seabed is being built.
GenIdle == ViewerInit(<<>>) /\ KelpInit(KelpMinHeight) /\ RuinsInit

\* ------------------------------------------------------------ initial state
NullRefs ==
  [ containerRef |-> Null, sceneRef |-> Null, rendererRef |-> Null,
    rodCtrlRef |-> Null, boatCtrlRef |-> Null, bobberCtrlRef |-> Null,
    weatherCtrlRef |-> Null, spotCtrlRef |-> Null, seabedCtrlRef |-> Null,
    line |-> Null, water |-> Null ]

NoFrame == [steps |-> <<>>, contextLost |-> FALSE, night |-> FALSE,
            reported |-> FALSE, failed |-> "none"]

\* new THREE.BufferGeometry().setFromPoints(points) (part_002:233-234): both
\* points at the origin.
NewLineGeo == [p0 |-> <<0, 0, 0>>, p1 |-> <<0, 0, 0>>]

\* The props a host that shows the atlantis map and listens to the weather
\* renders the component with.
DefaultProps == [map |-> "atlantis", onWeatherUpdate |-> TRUE]

\* The component has rendered once: the refs hold their initial values and
\* the container <div> is attached; no effect has run yet.
InitWith(p) ==
  /\ props = p
  /\ weather = [time |-> 0, weather |-> "CLEAR"]
  /\ lastWeatherReportRef = [weather |-> "CLEAR", hour |-> 0 - 1]
  /\ hostWeather = <<>>
  /\ seabed = [visible |-> FALSE]
  /\ lineGeo = NewLineGeo
  /\ refs = [NullRefs EXCEPT !.containerRef = 1]
  /\ stateRef = [isCasted |-> FALSE, targetPos |-> <<0, 0, 0>>]
  /\ bobber = [visible |-> FALSE, pos |-> <<0, 0, 0>>]
  /\ rod = [reeling |-> FALSE]
  /\ runs = 0
  /\ runStatus = [g \in Runs |-> "none"]
  /\ scene = [g \in Runs |-> [state |-> "none", draws |-> <<>>]]
  /\ animationId = [g \in Runs |-> Null]
  /\ raf = {}
  /\ nextRafId = 1
  /\ contextLost = [g \in Runs |-> FALSE]
  /\ dom = {}
  /\ cleanupCalls = [c \in Runs \X (0..MaxRuns) |-> 0]
  /\ lastFrame = NoFrame
  /\ roundTrip = "idle"
  /\ callerLog = {}

Init == InitWith(DefaultProps) /\ GenIdle

\* The objects scene.traverse visits in the scene of run g.
SceneOf(g) ==
  IF g = Null \/ scene[g].state # "built" THEN <<>>
  ELSE SceneObjects(g, scene[g].draws)

\* ---------------------------------------------------------------- frame step
\* renderer.getContext() returns the context object the renderer was built
\* with; a lost context is still an object.  Null only without a renderer.
GetContext(rendererRef) == rendererRef

\* A frame step that renders before it updates the line.
FrameStepsRenderEarly(r, st) ==
  << "waterTime", "weather", "night", "spots", "rod", "boat", "bobber",
     "seabed", "render", IF st.isCasted THEN "lineToBobber" ELSE "lineIdle" >>

\* The sub-steps one animate invocation performs once past its guard, in the
\* order the code performs them, given the refs r and the cast state st.
FrameSteps(r, st) ==
     (IF r.water # Null THEN << "waterTime" >> ELSE <<>>)
  \o (IF r.weatherCtrlRef # Null
        THEN << "weather" >>
             \o (IF r.boatCtrlRef # Null THEN << "night" >> ELSE <<>>)
             \o (IF r.spotCtrlRef # Null THEN << "spots" >> ELSE <<>>)
        ELSE <<>>)
  \o (IF r.rodCtrlRef # Null THEN << "rod" >> ELSE <<>>)
  \o (IF r.boatCtrlRef # Null THEN << "boat" >> ELSE <<>>)
  \o (IF r.bobberCtrlRef # Null THEN << "bobber" >> ELSE <<>>)
  \o (IF r.seabedCtrlRef # Null THEN << "seabed" >> ELSE <<>>)
  \o (IF st.isCasted /\ r.bobberCtrlRef # Null /\ r.line # Null
        THEN << "lineToBobber" >>
        ELSE IF r.line # Null /\ ~st.isCasted THEN << "lineIdle" >> ELSE <<>>)
  \o << "render" >>

\* new WeatherController(...): CLEAR at the configured start time.
NewWeather(start) == [time |-> start, weather |-> "CLEAR"]

\* WeatherController.update(dt): the time advances by dt and wraps at 24 h;
\* draw is the category a transition evaluated during this update chose,
\* "none" when no transition was evaluated.
WeatherUpdate(ws, dt, draw) ==
  [time |-> (ws.time + dt) % (2 * 24),
   weather |-> IF draw = "none" THEN ws.weather ELSE draw]

\* Math.floor(weatherState.time).
currentHour(ws) == ws.time \div 2

\* weatherState.time < 6 || weatherState.time > 18.
isNight(ws) == ws.time < 2 * 6 \/ ws.time > 2 * 18

\* A night flag taken from the weather state the frame started with.
NightModeStale(before, after) == isNight(before)

\* The flag the frame gives to boatCtrl.setNightMode: before is the weather
\* state the frame started with, after the one weatherCtrl.update left.
NightMode(before, after) == isNight(after)

\* A report decision that fires in every frame.
WeatherChangedAlways(last, ws) == TRUE

\* The condition under which the frame reports the weather to the host.
WeatherChanged(last, ws) ==
  last.weather # ws.weather \/ last.hour # currentHour(ws)

\* A world-coordinate vector in the model's position unit, 1/8000.
Fine(v) == [i \in 1..3 |-> v[i] * 8000]

\* RodController.getTipWorldPosition: a point above the boat.
GetTipWorldPosition(rd) == Fine(<<0, 3, 0 - 2>>)

\* A blend that goes half as far again as the remaining offset.
LerpTooFar(p, t) == [i \in 1..3 |-> p[i] + (((t[i] - p[i]) * 3) \div 2)]

\* Vector3.lerp(t, 0.05).
Lerp(p, t) == [i \in 1..3 |-> p[i] + ((t[i] - p[i]) \div 20)]

\* The bobber of a casted line after one frame: its position moves towards
\* the target, then y is set to bobble - 0.05.
BobberFrame(bob, target, in) ==
  [bob EXCEPT !.pos = [Lerp(bob.pos, Fine(target)) EXCEPT ![2] = in.bobble - 400]]

\* The line of a casted bobber that the frame writes (part_002:299-303): tip
\* is the rod tip, before the bobber's position when the frame began, after
\* its position once the frame has moved it.
LineCastedStale(tip, before, after) ==
  [p0 |-> tip, p1 |-> [before EXCEPT ![2] = @ + 2400]]

LineCasted(tip, before, after) ==
  [p0 |-> tip, p1 |-> [after EXCEPT ![2] = @ + 2400]]

\* The line hanging from the rod tip (part_002:306-310).
LineIdle(tip, in) ==
  [p0 |-> tip,
   p1 |-> <<tip[1] + in.swingX, tip[2] - 12000, tip[3] + in.swingZ>>]

\* rodTipPos (part_002:290-291): a new vector, filled in by the rod
\* controller when there is one.
RodTipPos(r, rd) ==
  IF r.rodCtrlRef # Null THEN GetTipWorldPosition(rd) ELSE <<0, 0, 0>>

\* The inputs of one animate invocation: dt, the time the weather advances
\* by, in half hours; draw, the weather transition drawn during the update;
\* bobble, the value of sin(time * 2.5) * 0.04 + cos(time * 1.5) * 0.02;
\* swingX and swingZ, the values of sin(time * 1.5) * 0.1 and
\* cos(time * 1.2) * 0.1; fail, the controller whose animate(time) throws in
\* this invocation ("none": none does).
\* StillFrame: no time has passed since the last update (the animate() call
\* of the mount effect, part_002:245, 316).
StillFrame == [dt |-> 0, draw |-> "none", bobble |-> 160, swingX |-> 400,
               swingZ |-> 800, fail |-> "none"]

\* The ref through which the frame calls each controller's animate(time)
\* (part_002:282-285).
AnimatedRef(r, e) ==
  CASE e = "rod" -> r.rodCtrlRef
    [] e = "boat" -> r.boatCtrlRef
    [] e = "bobber" -> r.bobberCtrlRef
    [] e = "seabed" -> r.seabedCtrlRef
    [] OTHER -> Null

\* The controller whose animate(time) is called and throws in a frame with
\* the input in, "none" when none does.
FailedEntity(r, in) ==
  IF AnimatedRef(r, in.fail) # Null THEN in.fail ELSE "none"

\* The sub-steps a frame completes when the update e throws: those before
\* it.  Nothing in animate catches the exception, so the invocation ends
\* there.
StepsBefore(steps, e) ==
  IF e = "none" THEN steps
  ELSE SubSeq(steps, 1, (CHOOSE i \in DOMAIN steps : steps[i] = e) - 1)

\* animate() of run g (part_002:247-315), invoked with the refs r, the bobber
\* bob, the weather state ws and the line geometry lg while the host holds
\* the frame requests pending.  Past the guard it requests the next frame
\* first, then runs the sub-steps and renders with its run's composer.
animate(g, r, pending, bob, ws, lg, in) ==
  IF r.rendererRef = Null \/ GetContext(r.rendererRef) = Null
    THEN /\ raf' = pending
         /\ bobber' = bob
         /\ weather' = ws
         /\ lineGeo' = lg
         /\ UNCHANGED <<animationId, nextRafId, lastFrame,
                        lastWeatherReportRef, hostWeather>>
    ELSE LET ws2 == IF r.weatherCtrlRef # Null
                      THEN WeatherUpdate(ws, in.dt, in.draw) ELSE ws
             report == /\ r.weatherCtrlRef # Null
                       /\ props.onWeatherUpdate
                       /\ WeatherChanged(lastWeatherReportRef, ws2)
             failed == FailedEntity(r, in)
             lerping == /\ stateRef.isCasted
                        /\ r.bobberCtrlRef # Null /\ r.line # Null
             bob2 == IF lerping /\ failed = "none"
                       THEN BobberFrame(bob, stateRef.targetPos, in)
                       ELSE bob
             tip == RodTipPos(r, rod)
         IN  /\ animationId' = [animationId EXCEPT ![g] = nextRafId]
             /\ raf' = pending \cup {[id |-> nextRafId, run |-> g]}
             /\ nextRafId' = nextRafId + 1
             /\ weather' = ws2
             /\ lastWeatherReportRef' =
                  IF report
                    THEN [weather |-> ws2.weather, hour |-> currentHour(ws2)]
                    ELSE lastWeatherReportRef
             /\ hostWeather' =
                  IF report THEN <<ws2.weather, ws2.time>> ELSE hostWeather
             /\ bobber' = bob2
             /\ lineGeo' =
                  IF failed # "none" THEN lg
                  ELSE IF lerping THEN LineCasted(tip, bob.pos, bob2.pos)
                  ELSE IF r.line # Null /\ ~stateRef.isCasted
                         THEN LineIdle(tip, in)
                  ELSE lg
             /\ lastFrame' =
                  [steps |-> StepsBefore(FrameSteps(r, stateRef), failed),
                   contextLost |-> contextLost[g],
                   night |-> /\ r.weatherCtrlRef # Null
                             /\ r.boatCtrlRef # Null
                             /\ NightMode(ws, ws2),
                   reported |-> report,
                   failed |-> failed]

\* The host runs the pending frame request q: animate of q's run.
FrameStep(q, in) ==
  /\ q \in raf
  /\ animate(q.run, refs, raf \ {q}, bobber, weather, lineGeo, in)
  /\ UNCHANGED genVars
  /\ UNCHANGED <<refs, stateRef, rod, runs, runStatus, scene,
                 contextLost, dom, cleanupCalls, roundTrip,
                 callerLog, props, seabed>>

\* The host runs a pending frame request.
FrameCallback(q, in) ==
  /\ nextRafId <= MaxRaf
  /\ FrameStep(q, in)

\* ------------------------------------------------------------- mount effect
\* new BobberController() / new RodController(): the state of a fresh
\* instance; whether a fresh bobber is shown is the constructor's choice.
NewBobber(visible) == [visible |-> visible, pos |-> <<0, 0, 0>>]
NewRod == [reeling |-> FALSE]

\* new SeabedController() (part_000:8-13): its group is a new THREE.Group,
\* which is visible.
NewSeabed == [visible |-> TRUE]

\* SeabedController.setVisible (part_000:183-185).
SeabedSetVisible(sb, visible) == [sb EXCEPT !.visible = visible]

\* A map effect that leaves the seabed as it is.
MapEffectNone(r, sb, map) == sb

\* The map effect (part_002:391-396) run on the refs r with the seabed sb.
MapEffect(r, sb, map) ==
  IF r.seabedCtrlRef # Null THEN SeabedSetVisible(sb, map = "atlantis") ELSE sb

\* The mount effect when the renderer is created (part_002:66-326), followed
\* by the map effect of the same commit (part_002:391-396); start is the time
\* the new WeatherController starts at.
Initialize(draws, vis, start) ==
  LET g == runs + 1
      r == [refs EXCEPT !.sceneRef = g, !.rendererRef = g, !.water = g,
                        !.boatCtrlRef = g, !.rodCtrlRef = g,
                        !.bobberCtrlRef = g, !.spotCtrlRef = g,
                        !.seabedCtrlRef = g, !.line = g,
                        !.weatherCtrlRef = g]
  IN  /\ runs < MaxRuns
      /\ nextRafId <= MaxRaf
      /\ refs.containerRef # Null
      /\ refs.rendererRef = Null
      /\ runs' = g
      /\ runStatus' = [runStatus EXCEPT ![g] = "ok"]
      /\ refs' = r
      /\ scene' = [scene EXCEPT ![g] = [state |-> "built", draws |-> draws]]
      /\ dom' = {g}
      /\ rod' = NewRod
      /\ animate(g, r, raf, NewBobber(vis), NewWeather(start), NewLineGeo,
                 StillFrame)
      /\ seabed' = MapEffect(r, NewSeabed, props.map)
      /\ UNCHANGED genVars
      /\ UNCHANGED <<stateRef, contextLost, cleanupCalls, roundTrip,
                     callerLog, props>>

\* The mount effect when new THREE.WebGLRenderer throws (part_002:108-111):
\* the scene ref is already set, the error goes to console.error and the effect returns
\* no cleanup function.
InitializeFail ==
  LET g == runs + 1
  IN  /\ runs < MaxRuns
      /\ refs.containerRef # Null
      /\ refs.rendererRef = Null
      /\ runs' = g
      /\ runStatus' = [runStatus EXCEPT ![g] = "failed"]
      /\ refs' = [refs EXCEPT !.sceneRef = g]
      /\ scene' = [scene EXCEPT ![g] = [state |-> "empty", draws |-> <<>>]]
      /\ seabed' = MapEffect(refs, seabed, props.map)
      /\ UNCHANGED <<genVars, lineGeo>>
      /\ UNCHANGED <<stateRef, bobber, rod, animationId, raf, nextRafId,
                     contextLost, dom, cleanupCalls, lastFrame, roundTrip,
                     callerLog, props, weather, lastWeatherReportRef,
                     hostWeather>>

\* The mount effect while a renderer is live (part_002:70): returns at once;
\* the map effect of the commit runs.
InitializeSkipped ==
  LET g == runs + 1
  IN  /\ runs < MaxRuns
      /\ refs.containerRef # Null
      /\ refs.rendererRef # Null
      /\ runs' = g
      /\ runStatus' = [runStatus EXCEPT ![g] = "skipped"]
      /\ seabed' = MapEffect(refs, seabed, props.map)
      /\ UNCHANGED <<genVars, lineGeo>>
      /\ UNCHANGED <<refs, stateRef, bobber, rod, scene, animationId, raf,
                     nextRafId, contextLost, dom, cleanupCalls,
                     lastFrame, roundTrip, callerLog, props, weather,
                     lastWeatherReportRef, hostWeather>>

\* ------------------------------------------------------------------ cleanup
ComposerOf(g) == Res(g, "composer", "composer", 0)
RendererOf(g) == Res(g, "renderer", "renderer", 0)

\* The dispose() calls one call of run g's cleanup makes when the shared
\* scene ref holds sref (part_002:334-356): the meshes of that scene, then the
\* composer and the renderer of the closure.
CleanupDisposals(g, sref) ==
  TraverseDispose(SceneOf(sref), EmptyBag)
    (+) SetToBag({ComposerOf(g)}) (+) SetToBag({RendererOf(g)})

\* Number of calls of run g's cleanup function so far.
TeardownCalls(g) ==
  LET F[k \in 0..(MaxRuns + 1)] ==
        IF k > MaxRuns THEN 0 ELSE cleanupCalls[<<g, k>>] + F[k + 1]
  IN  F[0]

\* The refs as the cleanup leaves them (part_002:364-371); objectsRef is
\* not among them.
ClearRefs(r) ==
  [r EXCEPT !.rendererRef = Null, !.sceneRef = Null, !.rodCtrlRef = Null,
            !.boatCtrlRef = Null, !.bobberCtrlRef = Null,
            !.weatherCtrlRef = Null, !.spotCtrlRef = Null,
            !.seabedCtrlRef = Null]

\* A cleanup that cancels no frame request.
CancelNothing(pending, id) == pending

\* The frame requests left pending by cancelAnimationFrame(animationId).
CancelAnimationFrame(pending, id) == {q \in pending : q.id # id}

\* The cleanup function returned by the mount effect of run g
\* (part_002:328-372), run on the refs r.
Cleanup(g, r) ==
  /\ raf' = CancelAnimationFrame(raf, animationId[g])
  /\ cleanupCalls' = [cleanupCalls EXCEPT ![<<g, refs.sceneRef>>] = @ + 1]
  /\ contextLost' = [contextLost EXCEPT ![g] = TRUE]
  /\ dom' = dom \ {g}
  /\ refs' = ClearRefs(r)

\* teardown(): the host calls the cleanup function of run g.
Teardown(g) ==
  /\ runStatus[g] = "ok"
  /\ TeardownCalls(g) < MaxTeardownCalls
  /\ Cleanup(g, refs)
  /\ UNCHANGED <<genVars, lineGeo>>
  /\ UNCHANGED <<stateRef, bobber, rod, runs, runStatus, scene, animationId,
                 nextRafId, lastFrame, roundTrip,
                 callerLog, props, weather, lastWeatherReportRef,
                 hostWeather, seabed>>

\* The runs whose cleanup React still owes at unmount.
OwedCleanups == {g \in Runs : runStatus[g] = "ok" /\ TeardownCalls(g) = 0}

\* Unmount: React detaches the container ref and runs the cleanup function of
\* the mount effect, when that effect returned one.
Unmount ==
  /\ refs.containerRef # Null
  /\ IF OwedCleanups # {}
       THEN \E g \in OwedCleanups :
              Cleanup(g, [refs EXCEPT !.containerRef = Null])
       ELSE /\ refs' = [refs EXCEPT !.containerRef = Null]
            /\ UNCHANGED <<raf, contextLost, dom, cleanupCalls>>
  /\ UNCHANGED <<genVars, lineGeo>>
  /\ UNCHANGED <<stateRef, bobber, rod, runs, runStatus, scene, animationId,
                 nextRafId, lastFrame, roundTrip,
                 callerLog, props, weather, lastWeatherReportRef,
                 hostWeather, seabed>>

\* -------------------------------------------------------------- command API
\* BobberController.setVisible / RodController.setReeling: a flag of the
\* controller instance.  RodController.triggerCast starts the rod's cast
\* animation and leaves the reeling flag alone.
BobberSetVisible(b, visible) == [b EXCEPT !.visible = visible]

\* bobberCtrl.position.copy(startPos).
BobberCopy(b, startPos) == [b EXCEPT !.pos = startPos]
RodSetReeling(rd, reeling) == [rd EXCEPT !.reeling = reeling]
RodTriggerCast(rd) == rd

\* The host can call the API once onReady has handed it over.
HasApi == "ready" \in callerLog

\* apiRef.current.cast (part_002:398-410).
cast(distance) ==
  /\ HasApi
  /\ stateRef' = [isCasted |-> TRUE,
                  targetPos |-> <<0, 0, (0 - 10) - (distance \div 5)>>]
  /\ rod' = IF refs.rodCtrlRef # Null THEN RodTriggerCast(rod) ELSE rod
  /\ bobber' = IF refs.bobberCtrlRef # Null
                 THEN BobberCopy(BobberSetVisible(bobber, TRUE),
                                 IF refs.rodCtrlRef # Null
                                   THEN GetTipWorldPosition(rod)
                                   ELSE <<0, 0, 0>>)
                 ELSE bobber
  /\ roundTrip' = "casted"
  /\ UNCHANGED <<genVars, lineGeo>>
  /\ UNCHANGED <<refs, runs, runStatus, scene, animationId, raf, nextRafId,
                 contextLost, dom, cleanupCalls, lastFrame, callerLog,
                 props, weather, lastWeatherReportRef,
                 hostWeather, seabed>>

\* A reset that hides the bobber and leaves isCasted as it was.
resetKeepsFlag ==
  /\ HasApi
  /\ stateRef' = stateRef
  /\ rod' = IF refs.rodCtrlRef # Null THEN RodSetReeling(rod, FALSE) ELSE rod
  /\ bobber' = IF refs.bobberCtrlRef # Null
                 THEN BobberSetVisible(bobber, FALSE) ELSE bobber
  /\ roundTrip' = IF roundTrip = "casted" THEN "castThenReset" ELSE "other"
  /\ UNCHANGED <<genVars, lineGeo>>
  /\ UNCHANGED <<refs, runs, runStatus, scene, animationId, raf, nextRafId,
                 contextLost, dom, cleanupCalls, lastFrame, callerLog,
                 props, weather, lastWeatherReportRef,
                 hostWeather, seabed>>

\* apiRef.current.reset (part_002:412-418).
reset ==
  /\ HasApi
  /\ stateRef' = [stateRef EXCEPT !.isCasted = FALSE]
  /\ rod' = IF refs.rodCtrlRef # Null THEN RodSetReeling(rod, FALSE) ELSE rod
  /\ bobber' = IF refs.bobberCtrlRef # Null
                 THEN BobberSetVisible(bobber, FALSE) ELSE bobber
  /\ roundTrip' = IF roundTrip = "casted" THEN "castThenReset" ELSE "other"
  /\ UNCHANGED <<genVars, lineGeo>>
  /\ UNCHANGED <<refs, runs, runStatus, scene, animationId, raf, nextRafId,
                 contextLost, dom, cleanupCalls, lastFrame, callerLog,
                 props, weather, lastWeatherReportRef,
                 hostWeather, seabed>>

\* A setReeling that, when reeling stops, also does what reset does.
setReelingResets(reeling) ==
  /\ HasApi
  /\ rod' = IF refs.rodCtrlRef # Null THEN RodSetReeling(rod, reeling) ELSE rod
  /\ stateRef' = [stateRef EXCEPT !.isCasted = @ /\ reeling]
  /\ bobber' = IF refs.bobberCtrlRef # Null /\ ~reeling
                 THEN BobberSetVisible(bobber, FALSE) ELSE bobber
  /\ roundTrip' = IF roundTrip = "idle" THEN "idle" ELSE "other"
  /\ UNCHANGED <<genVars, lineGeo>>
  /\ UNCHANGED <<refs, runs, runStatus, scene, animationId,
                 raf, nextRafId, contextLost, dom, cleanupCalls,
                 lastFrame, callerLog, props, weather, lastWeatherReportRef,
                 hostWeather, seabed>>

\* apiRef.current.setReeling (part_002:420-422).
setReeling(reeling) ==
  /\ HasApi
  /\ rod' = IF refs.rodCtrlRef # Null THEN RodSetReeling(rod, reeling) ELSE rod
  /\ roundTrip' = IF roundTrip = "idle" THEN "idle" ELSE "other"
  /\ UNCHANGED <<genVars, lineGeo>>
  /\ UNCHANGED <<refs, stateRef, bobber, runs, runStatus, scene, animationId,
                 raf, nextRafId, contextLost, dom, cleanupCalls,
                 lastFrame, callerLog, props, weather, lastWeatherReportRef,
                 hostWeather, seabed>>

\* The onReady effect (part_002:424-426): runs after the mount effect,
\* whatever that effect did, and hands the API to the host.
OnReady ==
  /\ runs >= 1
  /\ refs.containerRef # Null
  /\ ~HasApi
  /\ callerLog' = callerLog \cup {"ready"}
  /\ UNCHANGED <<genVars, lineGeo>>
  /\ UNCHANGED <<refs, stateRef, bobber, rod, runs, runStatus, scene,
                 animationId, raf, nextRafId, contextLost, dom, cleanupCalls,
                 lastFrame, roundTrip, props, weather, lastWeatherReportRef,
                 hostWeather, seabed>>

\* ----------------------------------------------------------- context events
\* webglcontextlost on the canvas of run g (part_002:89-92): the listener
\* prevents the default and warns.
ContextLost(g) ==
  /\ runStatus[g] = "ok"
  /\ TeardownCalls(g) = 0
  /\ ~contextLost[g]
  /\ contextLost' = [contextLost EXCEPT ![g] = TRUE]
  /\ UNCHANGED <<genVars, lineGeo>>
  /\ UNCHANGED <<refs, stateRef, bobber, rod, runs, runStatus, scene,
                 animationId, raf, nextRafId, dom, cleanupCalls,
                 lastFrame, roundTrip, callerLog, props, weather, lastWeatherReportRef,
                 hostWeather, seabed>>

\* webglcontextrestored on the canvas of run g (part_002:94-98): logs.
ContextRestored(g) ==
  /\ runStatus[g] = "ok"
  /\ TeardownCalls(g) = 0
  /\ contextLost[g]
  /\ contextLost' = [contextLost EXCEPT ![g] = FALSE]
  /\ UNCHANGED <<genVars, lineGeo>>
  /\ UNCHANGED <<refs, stateRef, bobber, rod, runs, runStatus, scene,
                 animationId, raf, nextRafId, dom, cleanupCalls,
                 lastFrame, roundTrip, callerLog, props, weather, lastWeatherReportRef,
                 hostWeather, seabed>>

\* ------------------------------------------------------------------ props
\* The host renders the component with another map: the map effect runs
\* (part_002:391-396).
MapChange(m) ==
  /\ refs.containerRef # Null
  /\ runs >= 1
  /\ m # props.map
  /\ props' = [props EXCEPT !.map = m]
  /\ seabed' = MapEffect(refs, seabed, m)
  /\ UNCHANGED <<genVars, lineGeo>>
  /\ UNCHANGED <<refs, stateRef, bobber, rod, runs, runStatus, scene,
                 animationId, raf, nextRafId, contextLost, dom, cleanupCalls,
                 lastFrame, roundTrip, callerLog, weather,
                 lastWeatherReportRef, hostWeather>>

\* ------------------------------------------------------------ specification
Next ==
  \/ \E draws \in SampleDraws, vis \in BOOLEAN : Initialize(draws, vis, 2 * 8)
  \/ InitializeFail
  \/ InitializeSkipped
  \/ \E q \in raf : FrameCallback(q, StillFrame)
  \/ \E d \in Distances : cast(d)
  \/ reset
  \/ \E b \in BOOLEAN : setReeling(b)
  \/ OnReady
  \/ \E g \in Runs : Teardown(g)
  \/ Unmount
  \/ \E g \in Runs : ContextLost(g)
  \/ \E g \in Runs : ContextRestored(g)

Spec == Init /\ [][Next]_vars

\* ------------------------------------------------- the scene under its props
\* The component under a host that changes the map and whose clock runs:
\* frames arrive with time passed and weather transitions drawn, the weather
\* controller starts shortly before or at 6:00, 18:00 and 24:00.
StartTimes == {11, 12, 35, 36, 47}
FrameInputs ==
  [dt : {0, 1}, draw : {"none", "RAIN"}, bobble : {160}, swingX : {400},
   swingZ : {800}, fail : {"none"}]

InitScene ==
  /\ \E p \in [map : Maps, onWeatherUpdate : BOOLEAN] : InitWith(p)
  /\ GenIdle

NextScene ==
  \/ \E draws \in SampleDraws, start \in StartTimes :
       Initialize(draws, FALSE, start)
  \/ InitializeFail
  \/ \E q \in raf, in \in FrameInputs : FrameCallback(q, in)
  \/ \E m \in Maps : MapChange(m)
  \/ \E g \in Runs : Teardown(g)
  \/ Unmount

SpecScene == InitScene /\ [][NextScene]_vars

\* ------------------------------------------------------------ the cast line
\* One scene whose host casts and resets over many frames; the clock runs
\* and a controller's animate(time) may throw in a frame.
CastInputs ==
  [dt : {0, 1}, draw : {"none"}, bobble : {160}, swingX : {400},
   swingZ : {800}, fail : {"none", "rod", "seabed"}]

CastFrame(q, in) ==
  /\ nextRafId <= MaxCastFrames
  /\ FrameStep(q, in)

NextCast ==
  \/ \E draws \in SampleDraws : Initialize(draws, FALSE, 2 * 8)
  \/ OnReady
  \/ \E d \in Distances : cast(d)
  \/ reset
  \/ \E q \in raf, in \in CastInputs : CastFrame(q, in)

SpecCast == Init /\ [][NextCast]_vars

\* ------------------------------------------------------- the species viewer
\* The FishViewer alone, opened on any of the species ids.

InitViewer ==
  /\ InitWith(DefaultProps)
  /\ \E id \in SpeciesIds : ViewerInit(id)
  /\ KelpInit(KelpMinHeight)
  /\ RuinsInit

NextViewer ==
  \/ \E in \in ViewerInputs : ViewerMount(in)
  \/ \E in \in ViewerInputs : ViewerFrame(in)
  \/ \E id \in Words, in \in ViewerInputs : FishTypeChange(id, in)
  \/ handleMouseDown
  \/ handleMouseUp
  \/ ViewerCleanup

SpecViewer == InitViewer /\ [][NextViewer]_vars

\* ------------------------------------------------------------ the frame loops
\* Both components under React alone: it mounts them, runs an effect again
\* after that effect's cleanup, changes the viewer's species, runs frame
\* callbacks and unmounts.  It calls a cleanup function once.
LoopSpecies == {Dragon, <<"k", "o", "i">>}

EffectCleanup(g) ==
  /\ TeardownCalls(g) = 0
  /\ Teardown(g)

InitLoops ==
  /\ InitWith(DefaultProps)
  /\ \E id \in LoopSpecies : ViewerInit(id)
  /\ KelpInit(KelpMinHeight)
  /\ RuinsInit

NextLoops ==
  \/ \E draws \in SampleDraws : Initialize(draws, FALSE, 2 * 8)
  \/ InitializeFail
  \/ InitializeSkipped
  \/ \E q \in raf : FrameCallback(q, StillFrame)
  \/ \E g \in Runs : EffectCleanup(g)
  \/ Unmount
  \/ \E in \in ViewerInputs : ViewerMount(in)
  \/ \E in \in ViewerInputs : ViewerFrame(in)
  \/ \E id \in LoopSpecies, in \in ViewerInputs : FishTypeChange(id, in)
  \/ ViewerCleanup

SpecLoops == InitLoops /\ [][NextLoops]_vars

\* ------------------------------------------------------------ the kelp loop
\* The vertex loop of one stalk, for every height.

InitKelp ==
  /\ InitWith(DefaultProps)
  /\ ViewerInit(<<>>)
  /\ \E h \in Heights : KelpInit(h)
  /\ RuinsInit

NextKelp == KelpTwistStep

SpecKelp == InitKelp /\ [][NextKelp]_vars

\* --------------------------------------------------------------- the ruins
\* The construction of the ruins under every outcome of its draws.

NextRuins ==
  \/ \E d \in PillarDraws : PillarStep(d)
  \/ ArchStep

SpecRuins == Init /\ [][NextRuins]_vars

\* ------------------------------------------------------- derived observations
\* The bag b with every count multiplied by n.
Scale(b, n) == IF n = 0 THEN EmptyBag ELSE [x \in DOMAIN b |-> b[x] * n]

RECURSIVE SumDisposals(_)
SumDisposals(cs) ==
  IF cs = {} THEN EmptyBag
  ELSE LET c == CHOOSE x \in cs : TRUE
       IN  Scale(CleanupDisposals(c[1], c[2]), cleanupCalls[c])
             (+) SumDisposals(cs \ {c})

\* Every dispose() call made so far, per resource.
DisposeCalls == SumDisposals({c \in DOMAIN cleanupCalls : cleanupCalls[c] > 0})

\* The cleanup function of some run has been called and no renderer is live.
TornDown == refs.rendererRef = Null /\ \E g \in Runs : TeardownCalls(g) > 0

\* The state the command API and the frame step work on.
commandState == <<refs, stateRef, bobber, rod, raf, dom, cleanupCalls,
                  contextLost, lastFrame>>

ControllerRefsNull(r) ==
  /\ r.rodCtrlRef = Null /\ r.boatCtrlRef = Null /\ r.bobberCtrlRef = Null
  /\ r.weatherCtrlRef = Null /\ r.spotCtrlRef = Null /\ r.seabedCtrlRef = Null

\* --------------------------------------------------------------------- claims
\* C1: a reset() that follows a cast(d) on an initialized orchestrator (the
\* bobber controller exists) leaves isCasted false and the bobber hidden,
\* whatever d was.
C1_CastResetRoundTrip ==
  [][(reset /\ roundTrip = "casted" /\ refs.bobberCtrlRef # Null)
       => (~stateRef'.isCasted /\ ~bobber'.visible)]_vars

\* A cast(50) followed by reset() with the bobber controller present.
C1_Witness ==
  /\ roundTrip = "castThenReset" /\ refs.bobberCtrlRef # Null
  /\ stateRef.targetPos = <<0, 0, 0 - 20>>
  /\ ~stateRef.isCasted /\ ~bobber.visible

\* C2: after teardown() a call of cast, reset or setReeling changes no state,
\* CastState.isCasted and CastState.targetPosition included.
C2_CommandsInertAfterTeardown ==
  [][(TornDown /\ ((\E d \in Distances : cast(d)) \/ reset
                     \/ (\E b \in BOOLEAN : setReeling(b))))
       => UNCHANGED commandState]_vars

\* C3: a second call of teardown() disposes nothing again (scene objects,
\* composer, renderer) and removes no canvas: it is a no-op.
C3_SecondTeardownIsNoOp ==
  [][\A g \in Runs :
       (Teardown(g) /\ TeardownCalls(g) >= 1)
         => (CleanupDisposals(g, refs.sceneRef) = EmptyBag
             /\ UNCHANGED <<refs, raf, dom>>)]_vars

\* C4: within one teardown no geometry or material receives more than one
\* dispose() call, also when several meshes share it.
C4_EachResourceDisposedOnce ==
  (\A g \in Runs : TeardownCalls(g) <= 1)
    => \A x \in BagToSet(DisposeCalls) : CopiesIn(x, DisposeCalls) <= 1

\* C5: after teardown() of a completed initialize every resource that
\* initialize created has been disposed and no frame request of the run is
\* pending.
C5_NothingLeftUnreleased ==
  \A g \in Runs :
    (runStatus[g] = "ok" /\ TeardownCalls(g) >= 1)
      => /\ \A x \in CreatedResources(g, scene[g].draws) : BagIn(x, DisposeCalls)
         /\ \A q \in raf : q.run # g

\* C6: once the cleanup of a run has been called, no animate callback of that
\* run executes and no frame request of that run is issued, so it renders no
\* more.
C6_NoFrameAfterTeardown ==
  [][/\ \A q \in raf : FrameCallback(q, StillFrame) => TeardownCalls(q.run) = 0
     /\ \A q \in raf' : TeardownCalls(q.run)' = 0]_vars

\* The first run was torn down after one of its frame callbacks had run.
C6_Witness ==
  /\ TeardownCalls(1) >= 1
  /\ animationId[1] >= 2
  /\ \A q \in raf : q.run # 1

\* C7: no frame step issues a render call while the canvas' context is lost.
C7_NoRenderWhileContextLost ==
  ~(lastFrame.contextLost /\ "render" \in Range(lastFrame.steps))

\* C8: when renderer creation failed, the failure has been reported to the
\* caller, no controller was constructed and no frame loop was started.
C8_InitFailureReported ==
  \A g \in Runs :
    (runStatus[g] = "failed" /\ runs = g)
      => /\ "initError" \in callerLog
         /\ ControllerRefsNull(refs)
         /\ refs.rendererRef = Null
         /\ \A q \in raf : q.run # g

\* C9: after an unmount that follows a failed initialize, every reference the
\* partial initialize set (scene, renderer, controllers) is cleared.
C9_PartialTeardownClearsRefs ==
  (refs.containerRef = Null /\ runs >= 1 /\ runStatus[runs] = "failed")
    => /\ refs.sceneRef = Null
       /\ refs.rendererRef = Null
       /\ ControllerRefsNull(refs)

\* The place of a sub-step in the frame order.
StepRank(step) ==
  CASE step = "waterTime" -> 0
    [] step = "weather" -> 1
    [] step \in {"night", "spots"} -> 2
    [] step \in {"rod", "boat", "bobber", "seabed"} -> 3
    [] step \in {"lineToBobber", "lineIdle"} -> 4
    [] step = "render" -> 5

\* C10: every frame step runs its sub-steps in the order weather; night flag
\* and spawn spots; rod, boat, bobber, seabed; line update; render, with
\* exactly one render, which comes last.
C10_FrameOrder ==
  LET s == lastFrame.steps
  IN  s # <<>> =>
        /\ \A i, j \in DOMAIN s : i < j => StepRank(s[i]) <= StepRank(s[j])
        /\ {StepRank(s[i]) : i \in DOMAIN s} = 0..5
        /\ Cardinality({i \in DOMAIN s : s[i] = "render"}) = 1
        /\ Cardinality({i \in DOMAIN s : StepRank(s[i]) = 4}) = 1
        /\ \A x \in {"night", "spots", "rod", "boat", "bobber", "seabed"} :
             Cardinality({i \in DOMAIN s : s[i] = x}) = 1

\* A frame callback has run while casted.
C10_Witness ==
  /\ "lineToBobber" \in Range(lastFrame.steps)
  /\ nextRafId >= 3

\* The (weather, integer hour) pair of the report the host received last.
HostPair ==
  IF hostWeather = <<>> THEN <<>>
  ELSE <<hostWeather[1], hostWeather[2] \div 2>>

\* C11: a frame that updates the weather invokes onWeatherUpdate if and only
\* if the weather category or the integer hour after the update differs from
\* the pair reported last; the host receives the updated weather and time.
C11_WeatherReportEdgeTriggered ==
  [][(nextRafId' # nextRafId /\ refs'.weatherCtrlRef # Null
        /\ props.onWeatherUpdate)
       => /\ lastFrame'.reported
               <=> (<<weather'.weather, weather'.time \div 2>> # HostPair)
          /\ hostWeather' = IF lastFrame'.reported
                              THEN <<weather'.weather, weather'.time>>
                              ELSE hostWeather]_vars

\* A frame callback in which time passed within the hour reported last and
\* the weather stayed: nothing was reported.
C11_Witness ==
  /\ props.onWeatherUpdate /\ "weather" \in Range(lastFrame.steps)
  /\ nextRafId >= 3
  /\ ~lastFrame.reported
  /\ hostWeather # <<>> /\ weather.time # hostWeather[2]

\* C12: a setReeling call, with either argument and in every state, leaves
\* isCasted, the target position and the bobber (visibility and position)
\* as they were.
C12_SetReelingKeepsCastState ==
  [][(\E b \in BOOLEAN : setReeling(b)) => UNCHANGED <<stateRef, bobber>>]_vars

\* setReeling(true) was called on a casted line whose bobber had moved.
C12_Witness ==
  /\ rod.reeling /\ stateRef.isCasted /\ bobber.visible
  /\ refs.bobberCtrlRef # Null
  /\ bobber.pos # GetTipWorldPosition(rod)

\* C13: a cast made while isCasted is true only updates the target position:
\* isCasted stays true and the bobber keeps its visibility and its position.
C13_CastWhileCastedKeepsBobber ==
  [][\A d \in Distances :
       (cast(d) /\ stateRef.isCasted /\ refs.bobberCtrlRef # Null)
         => (stateRef'.isCasted /\ bobber' = bobber)]_vars

C19_NightFlagFromUpdatedTime ==
  "night" \in Range(lastFrame.steps)
    => (lastFrame.night <=> (weather.time < 12 \/ weather.time > 36))

\* A frame callback whose update moved the time from 5:30 to 6:00 and gave
\* the boat the day flag.
C19_Witness ==
  /\ "night" \in Range(lastFrame.steps) /\ nextRafId >= 3
  /\ weather.time = 12 /\ ~lastFrame.night
  /\ hostWeather # <<>> /\ hostWeather[2] = 12

\* C20: once the cleanup of a run has been called, the component never has a
\* live renderer again: a later execution of the mount effect builds nothing.
C20_DisposedIsPermanent ==
  (\E g \in Runs : TeardownCalls(g) >= 1) => refs.rendererRef = Null

\* ---- C15
\* The rules of the species dispatch as the contract lists them, in order:
\* the keywords of a rule and the builder it selects.
DispatchRules ==
  << [keys |-> {Dragon}, builder |-> SeaDragon],
     [keys |-> {Cosmic, Shark}, builder |-> SharkFish],
     [keys |-> {Ancient, Dunkle}, builder |-> BoxFish],
     [keys |-> {Rare, Arowana}, builder |-> ArowanaFish],
     [keys |-> {Legend, Coelacanth}, builder |-> CoelacanthFish] >>

RuleMatches(i, id) == \E k \in DispatchRules[i].keys : Includes(id, k)

\* The builder of the first rule that matches id, the Generic builder when
\* none does.
FirstMatchBuilder(id) ==
  IF \E i \in DOMAIN DispatchRules : RuleMatches(i, id)
    THEN DispatchRules[CHOOSE i \in DOMAIN DispatchRules :
                         /\ RuleMatches(i, id)
                         /\ \A j \in 1..(i - 1) : ~RuleMatches(j, id)].builder
    ELSE GenericFish

\* What tells the builders apart in a group, whatever the animation did to
\* it since: the names and geometries of its children, in order.
Shape(parts) == [i \in DOMAIN parts |-> <<parts[i].name, parts[i].geo>>]

PartNames(parts) == {parts[i].name : i \in DOMAIN parts} \ {""}

Generated == fishGroup.parts # <<>>

\* C15: the group the viewer shows is the output of exactly the builder of
\* the first rule, in the order dragon; cosmic or shark; ancient or dunkle;
\* rare or arowana; legend or coelacanth, that the species id matches; an id
\* matching no rule gets the Generic builder's group, whose named parts are
\* exactly Tail, FinL and FinR.
C15_SpeciesDispatch ==
  Generated =>
    /\ Shape(fishGroup.parts) = Shape(FirstMatchBuilder(fishType))
    /\ \A b \in {DispatchRules[i].builder : i \in DOMAIN DispatchRules}
                \cup {GenericFish} :
          Shape(fishGroup.parts) = Shape(b) => b = FirstMatchBuilder(fishType)
    /\ (\A i \in DOMAIN DispatchRules : ~RuleMatches(i, fishType)) =>
          PartNames(fishGroup.parts) = {"Tail", "FinL", "FinR"}

\* An id matching two rules was dispatched, and so was an id matching none.
C15_Witness ==
  /\ Generated
  /\ fishType = Shark \o Dragon
  /\ Shape(fishGroup.parts) = Shape(SeaDragon)

\* ---- C16
\* The front end of the dragon's body: the first control point of its path.
DragonFront == DragonPath[1]

\* C16: the group generated for a species id containing "dragon" has a body
\* of exactly 4 radial segments and a head part that has a name and lies
\* forward of the front end of the body.
C16_DragonBodyAndNamedHead ==
  (Generated /\ Includes(fishType, Dragon)) =>
    /\ fishGroup.parts[1].geo = Geo("Tube", 4)
    /\ \E i \in DOMAIN fishGroup.parts :
         /\ fishGroup.parts[i].geo.kind = "Cone"
         /\ fishGroup.parts[i].name # ""
         /\ fishGroup.parts[i].pos[3] > DragonFront

\* ---- C17
\* The children the part animation may write in parts: the tail when there
\* is one, the two fins when there are both.
AnimatedParts(parts) ==
  LET tail == getObjectByName(parts, "Tail")
      finL == getObjectByName(parts, "FinL")
      finR == getObjectByName(parts, "FinR")
  IN  (IF tail # 0 THEN {tail} ELSE {})
        \cup (IF finL # 0 /\ finR # 0 THEN {finL, finR} ELSE {})

LacksPart(parts) ==
  \/ getObjectByName(parts, "Tail") = 0
  \/ getObjectByName(parts, "FinL") = 0
  \/ getObjectByName(parts, "FinR") = 0

\* A frame on the group whose children were before: one render, no error,
\* and every child outside the animated ones as it was.
TolerantFrame(before) ==
  LacksPart(before) =>
    /\ viewer'.renders = viewer.renders + 1
    /\ ~viewer'.error
    /\ DOMAIN fishGroup'.parts = DOMAIN before
    /\ \A i \in DOMAIN before \ AnimatedParts(before) :
         fishGroup'.parts[i] = before[i]

\* C17: a frame of the viewer on a group without a part named Tail, or
\* without FinL or FinR, skips the update of that part without an error: the
\* frame ends with one render and no other part's transform changes.
C17_MissingPartTolerance ==
  [][ /\ (\E in \in ViewerInputs : ViewerFrame(in)) =>
           TolerantFrame(fishGroup.parts)
      /\ (\E in \in ViewerInputs : ViewerMount(in)) =>
           TolerantFrame(generateLowPolyFish(fishType))
      /\ (\E id \in Words, in \in ViewerInputs : FishTypeChange(id, in)) =>
           TolerantFrame(generateLowPolyFish(fishType')) ]_vars

\* A dragon, which has none of the three parts, went through a frame after
\* the first and rendered.
C17_Witness ==
  /\ Includes(fishType, Dragon)
  /\ LacksPart(fishGroup.parts) /\ AnimatedParts(fishGroup.parts) = {}
  /\ viewer.renders >= 2
  /\ ~viewer.error

\* ---- C18
\* Where the contract puts vertex v of a stalk: row v \div 2 from the top is
\* at height fraction f = (4 - v \div 2) / 4, turned by f * pi about the
\* growth axis and lifted to y = f * height.
KelpRowOf(v) == 4 - (v \div 2)

KelpContractVertex(height, v) ==
  LET p == PlaneVertex(height, v)
      angle == KelpRowOf(v)
  IN  << (p[1] * Cos8(angle) - p[3] * Sin8(angle)) \div 1000,
         KelpRowOf(v) * height,
         (p[1] * Sin8(angle) + p[3] * Cos8(angle)) \div 1000 >>

\* C18: every vertex the loop has transformed, at height fraction f in
\* {0, 1/4, 1/2, 3/4, 1} of a stalk of height H, is the plane's vertex
\* rotated about the growth axis by f * pi (0 at the base, pi at the tip)
\* and translated so that the lowest vertices lie at y = 0.
C18_KelpTransform ==
  \A v \in 0..(kelp.v - 1) :
    kelp.pos[v] = KelpContractVertex(kelp.height, v)

\* ---- C21
\* The sub-steps of a frame in which only the update e is skipped.
StepsWithout(steps, e) == SelectSeq(steps, LAMBDA x : x # e)

\* C21: a frame in which one controller's animation update fails skips that
\* update only: the other updates, the line update and the render of the
\* frame run, and the next frame is requested.
C21_FailedUpdateNotFatal ==
  [][\A q \in raf, in \in CastInputs :
       (CastFrame(q, in) /\ FailedEntity(refs, in) # "none") =>
         /\ lastFrame'.steps =
              StepsWithout(FrameSteps(refs, stateRef), FailedEntity(refs, in))
         /\ \E n \in raf' \ raf : n.run = q.run]_vars

\* ---- C22
\* The frame of a casted line wrote the line.
LineWritten == "lineToBobber" \in Range(lastFrame.steps)

Raised(pos) == [pos EXCEPT ![2] = @ + 2400]

\* C22 as stated: after every frame that updates the line of a casted
\* bobber, the line's first point is the rod tip and its second point is the
\* bobber's position of that frame.
C22_LineEndsAtBobber ==
  [][\A q \in raf, in \in CastInputs :
       (CastFrame(q, in) /\ LineWritten') =>
         /\ lineGeo'.p0 = RodTipPos(refs, rod)
         /\ lineGeo'.p1 = bobber'.pos]_vars

\* C22 amended: after every frame that updates the line of a casted bobber,
\* the line's first point is the rod tip and its second point is the
\* bobber's position of that frame raised by 0.3 in y.
C22_LineEndsAboveBobber ==
  [][\A q \in raf, in \in CastInputs :
       (CastFrame(q, in) /\ LineWritten') =>
         /\ lineGeo'.p0 = RodTipPos(refs, rod)
         /\ lineGeo'.p1 = Raised(bobber'.pos)]_vars

\* A frame moved a casted bobber away from the rod tip and wrote the line
\* to where it moved it.
C22_Witness ==
  /\ LineWritten /\ stateRef.isCasted
  /\ bobber.pos[3] # GetTipWorldPosition(rod)[3]
  /\ lineGeo = [p0 |-> GetTipWorldPosition(rod), p1 |-> Raised(bobber.pos)]

\* ---- C23
Abs(n) == IF n < 0 THEN 0 - n ELSE n

\* The frame moves the coordinate p to p2 on its way to t: by a twentieth of
\* the remaining offset (rounded down to the position unit), no farther from
\* t than it was and not past it.
BlendedToward(p, p2, t) ==
  /\ (p2 - p) * 20 <= t - p
  /\ t - p < ((p2 - p) * 20) + 20
  /\ Abs(t - p2) <= Abs(t - p)
  /\ (t - p >= 0 => t - p2 >= 0) /\ (t - p <= 0 => t - p2 <= 0)

\* C23: every frame of a casted bobber, whatever its dt, moves the bobber's
\* x and z towards the target by 0.05 of the remaining offset: the distance
\* to the target does not grow and the bobber does not pass the target.
C23_BobberBlendsTowardTarget ==
  [][\A q \in raf, in \in CastInputs :
       (/\ CastFrame(q, in)
        /\ stateRef.isCasted /\ refs.bobberCtrlRef # Null /\ refs.line # Null
        /\ FailedEntity(refs, in) = "none") =>
         \A i \in {1, 3} :
           BlendedToward(bobber.pos[i], bobber'.pos[i],
                         Fine(stateRef.targetPos)[i])]_vars

\* Three frames in a row moved the bobber of a cast(50) from the rod tip
\* towards z = -20.
C23_Witness ==
  /\ stateRef.isCasted /\ stateRef.targetPos = <<0, 0, 0 - 20>>
  /\ bobber.pos[1] = 0
  /\ bobber.pos[3] = 0 - 36538

\* ---- C24
\* The group of a viewer opened at the time of the frame input in, whose
\* effect has run its one animate() at that time.
FirstFrameGroup(id, in) ==
  [rotY |-> 5, posY |-> in.bobY,
   parts |-> AnimateParts(generateLowPolyFish(id), in).parts]

\* C24: the transforms a frame of the viewer leaves at time t (tail, fins
\* and the rotation and height of the group) depend on t only, not on the
\* frames before: a viewer that has run frames before ends a frame at t
\* with the transforms of a viewer whose only frame is the one at t.
C24_ClosedFormAnimation ==
  [][\A in \in ViewerInputs :
       (ViewerFrame(in) /\ ~viewer.isDragging /\ ~viewer'.error) =>
         fishGroup' = FirstFrameGroup(fishType, in)]_vars

\* ---- C27
\* The runs whose renderer has been constructed and not disposed.
LiveRenderers == {g \in Runs : runStatus[g] = "ok" /\ TeardownCalls(g) = 0}

OneLoopEach ==
  /\ Cardinality(LiveRenderers) <= 1
  /\ Cardinality(raf) <= 1
  /\ viewer.renderers <= 1
  /\ viewer.pending <= 1

\* C27: while React mounts the components, runs their effects again, runs
\* frame callbacks, changes the viewer's species and unmounts, each
\* component has at most one renderer and at most one pending frame
\* request, and an initialize while a renderer is live creates nothing.
C27_OneFrameLoop ==
  /\ []OneLoopEach
  /\ [][InitializeSkipped =>
         UNCHANGED <<refs, scene, raf, animationId, nextRafId, dom, bobber,
                     rod, weather, lineGeo>>]_vars

\* Both components are on their second effect run, each with one renderer
\* and one pending request, and the scene's effect has been run once more
\* on top of the live renderer.
C27_Witness ==
  /\ runs = 2 /\ runStatus[1] = "ok" /\ TeardownCalls(1) = 1
  /\ runStatus[2] = "ok" /\ LiveRenderers = {2}
  /\ Cardinality(raf) = 1
  /\ viewer.mounted /\ viewer.renders = 2
  /\ viewer.renderers = 1 /\ viewer.pending = 1

\* ---- C26
\* The host has called cast or reset at least once.
Commanded == roundTrip # "idle"

\* C26: once cast or reset has been called, whatever frames, setReeling
\* calls, teardowns and scene builds came before or after, isCasted is true
\* exactly when the bobber is visible.
C26_CastFlagMatchesBobber ==
  Commanded => (stateRef.isCasted <=> bobber.visible)

\* ---- C25
\* The crystals the pillars built so far carry, as the list names them.
PillarCrystals ==
  {<<"pillar", k - 1>> : k \in {j \in DOMAIN ruins.pillars :
                                   ruins.pillars[j].crystal}}

\* C25: whatever the draws, the pillars stand 1/12 of a turn apart and the
\* finished ruins have exactly 12; a crystal, always with its light, is on
\* a tall capped pillar only; only broken pillars are tilted; and the
\* crystals list holds exactly the pillars' crystals, plus the arch crystal
\* once the arch is built: between 1 and 13 entries.
C25_RuinConstruction ==
  LET ps == ruins.pillars
  IN  /\ Len(ps) <= pillarCount
      /\ \A k \in DOMAIN ps :
           /\ ps[k].angle * pillarCount = (k - 1) * 360
           /\ ps[k].crystal => (ps[k].height = 35 /\ ps[k].cap /\ ~ps[k].tilted)
           /\ ps[k].light <=> ps[k].crystal
           /\ ps[k].tilted <=> ps[k].height = 15
           /\ ps[k].tilted => ~ps[k].cap
      /\ Range(ruins.crystals) =
           PillarCrystals \cup (IF ruins.arch THEN {<<"arch", 0>>} ELSE {})
      /\ Len(ruins.crystals) = Cardinality(Range(ruins.crystals))
      /\ ruins.arch =>
           /\ Len(ps) = pillarCount
           /\ Len(ruins.crystals) \in 1..(pillarCount + 1)

\* Finished ruins with a broken pillar, a tall pillar without a crystal and
\* a tall pillar with one.
C25_Witness ==
  /\ ruins.arch
  /\ ruins.pillars[1].tilted
  /\ ruins.pillars[2].cap /\ ~ruins.pillars[2].crystal
  /\ ruins.pillars[3].crystal
  /\ Len(ruins.crystals) = 2

====
